---- MODULE Spec2Model ----
(***************************************************************************)
(* A model of wavefront_pyformance/wavefront_reporter.py: the metric       *)
(* collector shared by both reporters (WavefrontReporter), the proxy       *)
(* delivery over a persistent socket (WavefrontProxyReporter) and the      *)
(* chunked HTTP delivery (WavefrontDirectReporter).                        *)
(*                                                                         *)
(* One report_now invocation is a sequence of steps of the calling thread: *)
(* the registry dump, one step per (key, value_key) pair of the collector  *)
(* loop, and one step per socket operation or POST.  The registry, the     *)
(* sockets and the HTTP endpoint are the environment: each operation on    *)
(* them draws its outcome from the outcomes that operation can have.       *)
(* All strings of the model are ASCII, for which the UTF-8 encoding of a   *)
(* text is the text's own byte sequence.                                   *)
(***************************************************************************)
EXTENDS Integers, Sequences, FiniteSets, TLC

\* ------------------------------------------------------------------ bounds
\* A counter is never incremented beyond MaxCount, and a delta counter is
\* incremented at most MaxCount times in all.
MaxCount == 2
\* At most MaxCycles invocations of report_now are started.
MaxCycles == 2
\* Batch sizes 1..MaxBatch are tried besides the default one.
MaxBatch == 2
\* close() is called at most MaxCloses times on one socket.
MaxCloses == 2

\* --------------------------------------------------------- program constants
\* WavefrontDirectReporter.__init__: self.batch_size = 10000
DefaultBatchSize == 10000

\* The source default of both constructors.
source == "wavefront-pyformance"

\* The prefix default of each reporter.
ProxyPrefix == "proxy."
DirectPrefix == "direct."

\* ------------------------------------------------------------------ threads
Threads == {"t1", "t2"}
\* The scheduler of pyformance runs the cycles of a reporter on one thread.
Scheduler == {"t1"}

\* ----------------------------------------------------------------- registry
\* The metric keys a registry can hold, in the registry's iteration order,
\* and the value keys of each in the order dump_metrics() gives them.
KeyOrder == <<"dreq", "hits", "lat">>
Keys == {KeyOrder[n] : n \in 1..Len(KeyOrder)}
CounterKeys == {"dreq", "hits"}
DeltaKeys == {"dreq"}
ValueKeyOrder(key) == IF key = "lat" THEN <<"min", "max">> ELSE <<"count">>

\* The value a freshly registered metric dumps.
NewMetric(key) == IF key = "lat" THEN [min |-> 1, max |-> 3] ELSE [count |-> 0]

\* A registry holding the keys `present`, as it is after their registration.
NewRegistry(present) == [key \in present |-> NewMetric(key)]

\* The registries a reporter is constructed over: an empty one, a delta
\* counter, a plain counter, and a delta counter with a two-valued metric.
RegistryChoices == { {}, {"dreq"}, {"hits"}, {"dreq", "lat"} }

\* registry.counter(key).inc()
CounterInc(reg, key) == [reg EXCEPT ![key].count = @ + 1]

\* ------------------------------------------------------------ python values
\* An optional value: <<>> is None, <<v>> is the value v.
None == <<>>
Some(v) == <<v>>

\* Python truth of an optional integer: None and 0 are false.
Truthy(opt) == opt # None /\ opt[1] # 0

\* str(v) of an integer, as '{}'.format(v) renders it.
Str(v) == ToString(v)

\* sep.join(seq)
RECURSIVE Join(_, _)
Join(sep, seq) ==
    IF Len(seq) = 0 THEN ""
    ELSE IF Len(seq) = 1 THEN seq[1]
    ELSE seq[1] \o sep \o Join(sep, Tail(seq))

\* seq[lo:hi] for 0 <= lo <= hi: the slice is clamped to the sequence.
Slice(seq, lo, hi) ==
    SubSeq(seq, lo + 1, IF hi < Len(seq) THEN hi ELSE Len(seq))

\* list(range(start, stop, step)) for step >= 1.
RECURSIVE PyRange(_, _, _)
PyRange(start, stop, step) ==
    IF start >= stop THEN <<>>
    ELSE <<start>> \o PyRange(start + step, stop, step)

\* int(round(x)) of a clock reading given in tenths of a second; the
\* readings of the model are never exactly half way between two integers.
RoundTenths(x) == (x + 5) \div 10

\* ------------------------------------------------------------- delta module
\* delta.is_delta_counter(key, registry): a counter registered as a delta
\* counter.
is_delta_counter(key, reg) == key \in DeltaKeys /\ key \in DOMAIN reg

\* delta.get_delta_name(prefix, name, value_key): the wire name of a delta
\* counter, marked so that it differs from the standard name.
DeltaMark == "delta:"
get_delta_name(prefix, name, value_key) ==
    DeltaMark \o prefix \o name \o "." \o value_key

\* ---------------------------------------------------------- WavefrontReporter
\* The point tags the reporter is constructed with, as (key, value) pairs.
TagChoices == { << <<"env", "dev">> >> }

\* __init__: ' '.join('"%s"="%s"' % (k, v) for k, v in tags.items())
TagStr(tags) ==
    Join(" ", [n \in 1..Len(tags) |->
                 "\"" \o tags[n][1] \o "\"=\"" \o tags[n][2] \o "\""])

\* _get_metric_name
_get_metric_name(prefix, name, value_key, is_delta) ==
    IF is_delta THEN get_delta_name(prefix, name, value_key)
    ELSE prefix \o name \o "." \o value_key

\* The line without a timestamp segment, and the line with the segment seg
\* after the value: the two format strings of _get_metric_line.
PlainLine(name, value, src, tag_str) ==
    name \o " " \o Str(value) \o " source=\"" \o src \o "\" " \o tag_str
StampedLine(name, value, stamp, src, tag_str) ==
    name \o " " \o Str(value) \o " " \o Str(stamp)
         \o " source=\"" \o src \o "\" " \o tag_str

\* _get_metric_line: `if timestamp:` chooses the format string.
_get_metric_line(name, value, timestamp, src, tag_str) ==
    IF Truthy(timestamp)
    THEN StampedLine(name, value, timestamp[1], src, tag_str)
    ELSE PlainLine(name, value, src, tag_str)

\* Faulty variant: registry.counter(key).dec(), which decrements by one.
CounterDec_by_one(reg, key, value) == [reg EXCEPT ![key].count = @ - 1]

\* Faulty variant: the decrement is not made.
CounterDec_skipped(reg, key, value) == reg

\* Faulty variant: the decrement re-reads the counter,
\* registry.counter(key).dec(registry.counter(key).get_count()).
CounterDec_reread(reg, key, value) ==
    [reg EXCEPT ![key].count = @ - reg[key].count]

\* registry.counter(key).dec(value)
CounterDec(reg, key, value) == [reg EXCEPT ![key].count = @ - value]

\* The (key, value_key) pairs in the order the two loops of _collect_metrics
\* visit them: `for key in metrics.keys(): for value_key in metrics[key].keys()`.
RECURSIVE PairsFrom(_, _)
PairsFrom(metrics, n) ==
    IF n > Len(KeyOrder) THEN <<>>
    ELSE LET key == KeyOrder[n]
             vks == ValueKeyOrder(key)
         IN (IF key \in DOMAIN metrics
             THEN [m \in 1..Len(vks) |-> <<key, vks[m]>>]
             ELSE <<>>) \o PairsFrom(metrics, n + 1)
Pairs(metrics) == PairsFrom(metrics, 1)

\* ------------------------------------------------------------------- sockets
\* A socket object: its identity, its state and the number of close() calls
\* made on it.  States: "new" (created, not connected), "connected",
\* "broken" (the connection is lost: every later send fails), "closed".
NoSocket == [id |-> 0, state |-> "none", closes |-> 0]
NewSocket(n) == [id |-> n, state |-> "new", closes |-> 0]

\* The exceptions a socket operation, a POST or raise_for_status can raise:
\* socket.error, and any other subclass of Exception.
SocketError == "socket.error"
OtherException == "Exception"
Ok == "ok"

\* ---------------------------------------------------------------------- state
VARIABLES
    reporter,      \* the class of the reporter constructed: "proxy", "direct"
    registry,      \* the metrics registry: key -> value_key -> value
    tagStr,        \* self.tagStr, rendered once by __init__
    batch_size,    \* WavefrontDirectReporter.batch_size (a proxy reporter
                   \* has none: the variable then holds the default)
    proxy_socket,  \* WavefrontProxyReporter.proxy_socket
    nsock,         \* the number of sockets socket_factory has created
    cycles,        \* the number of report_now invocations started
    last_read,     \* per delta key: Some(N) when the latest dump read N and
                   \* the counter was not incremented since, else None
    incs,          \* per delta key: the number of increments made so far
    reported,      \* per delta key: the sum of the values the lines
                   \* collected so far report for it
    written,       \* per delta key: the sum of the values of its lines that
                   \* reached the network: once for every send() of the
                   \* line that succeeded and for every POST holding the
                   \* line that was answered with a 2xx status
    call           \* per thread: the frame of its report_now invocation

vars == <<reporter, registry, tagStr, batch_size, proxy_socket, nsock, cycles,
          last_read, incs, reported, written, call>>

\* The frame of a thread that is not inside report_now.
EmptyMetrics == [key \in {} |-> [count |-> 0]]
IdleCall ==
    [pc |-> "idle",           \* the position of the thread
     supplied |-> None,       \* the timestamp argument of report_now
     timestamp |-> None,      \* the timestamp passed to _collect_metrics
     registry_arg |-> None,   \* the registry argument of report_now
     metrics |-> EmptyMetrics,\* the dump _collect_metrics took
     pos |-> 1,               \* the next pair of Pairs(metrics) to visit
     metrics_data |-> <<>>,   \* the lines collected
     reconnect |-> TRUE,      \* the reconnect argument of _report_points
     line_i |-> 1,            \* the next line to send
     chunk_k |-> 1,           \* the next chunk of _get_chunks to POST
     ops |-> <<>>,            \* the socket operations of this invocation
     posts |-> <<>>,          \* the POSTs of this invocation
     logged |-> 0,            \* the logging.error calls of this invocation
     entry_socket |-> NoSocket,
                              \* proxy_socket as it was at the entry
     entry_nsock |-> 0,       \* nsock as it was at the entry
     before_dec |-> None,     \* the live value of the delta counter that the
                              \* latest decrement of this invocation found
     fresh |-> [key \in DeltaKeys |-> None]]
                              \* last_read as it was when the dump was taken

\* The timestamp arguments report_now is called with, and the readings of
\* clock.time() in tenths of a second.
Timestamps == {None, Some(0), Some(5)}
ClockReadings == {4, 16}

\* The registry arguments report_now is called with: none (the reporter's own
\* registry is collected), or another registry, which holds no metric.
RegistryArgs == {None, Some(EmptyMetrics)}

BatchSizes == (1..MaxBatch) \cup {DefaultBatchSize}

Init ==
    /\ reporter \in {"proxy", "direct"}
    /\ registry \in {NewRegistry(present) : present \in RegistryChoices}
    /\ tagStr \in {TagStr(tags) : tags \in TagChoices}
    /\ batch_size \in IF reporter = "direct" THEN BatchSizes
                      ELSE {DefaultBatchSize}
    /\ proxy_socket = NoSocket
    /\ nsock = 0
    /\ cycles = 0
    /\ last_read = [key \in DeltaKeys |-> None]
    /\ incs = [key \in DeltaKeys |-> 0]
    /\ reported = [key \in DeltaKeys |-> 0]
    /\ written = [key \in DeltaKeys |-> 0]
    /\ call = [t \in Threads |-> IdleCall]

\* --------------------------------------------------------------- environment
\* Another thread of the application increments a counter of the registry.
\* A reporter reads the registry in the dump and writes it in the decrements
\* of _collect_metrics only, so an increment made while a thread delivers
\* commutes with every step of the delivery: the increments are taken while
\* the threads are outside report_now or collecting.
counter_inc(key) ==
    /\ \A t \in Threads : call[t].pc \in {"idle", "collect"}
    /\ key \in CounterKeys \cap DOMAIN registry
    /\ registry[key].count < MaxCount
    /\ key \in DeltaKeys => incs[key] < MaxCount
    /\ registry' = CounterInc(registry, key)
    /\ last_read' = [k \in DeltaKeys |-> IF k = key THEN None ELSE last_read[k]]
    /\ incs' = [k \in DeltaKeys |-> IF k = key THEN incs[k] + 1 ELSE incs[k]]
    /\ UNCHANGED <<reporter, tagStr, batch_size, proxy_socket, nsock, cycles,
                   call, reported, written>>

\* ------------------------------------------------------------ report_now entry
\* The frame at the entry of _collect_metrics: `metrics = registry.dump_metrics()`.
\* `registry or self.registry`: the registry argument when one is passed.
Collecting(supplied, timestamp, registry_arg) ==
    [IdleCall EXCEPT !.pc = "collect", !.supplied = supplied,
                     !.timestamp = timestamp,
                     !.registry_arg = registry_arg,
                     !.metrics = IF registry_arg = None THEN registry
                                 ELSE registry_arg[1],
                     !.entry_socket = proxy_socket, !.entry_nsock = nsock,
                     !.fresh = IF registry_arg = None THEN last_read
                               ELSE [key \in DeltaKeys |-> None]]

EnterCycle(t, frame) ==
    /\ call[t].pc = "idle"
    /\ cycles < MaxCycles
    /\ cycles' = cycles + 1
    /\ call' = [call EXCEPT ![t] = frame]
    /\ last_read' = IF frame.registry_arg # None THEN last_read
                    ELSE [key \in DeltaKeys |->
                            IF key \in DOMAIN registry
                            THEN Some(registry[key].count) ELSE None]
    /\ UNCHANGED <<reporter, registry, tagStr, batch_size, proxy_socket,
                   nsock, incs, reported, written>>

\* WavefrontProxyReporter.report_now:
\*   timestamp = timestamp or int(round(self.clock.time()))
\*   metrics = self._collect_metrics(registry or self.registry, timestamp)
ProxyTimestamp(timestamp, now) ==
    IF Truthy(timestamp) THEN timestamp ELSE Some(RoundTenths(now))

Proxy_report_now(t) ==
    /\ reporter = "proxy"
    /\ \E timestamp \in Timestamps, now \in ClockReadings,
          registry_arg \in RegistryArgs :
          EnterCycle(t, Collecting(timestamp, ProxyTimestamp(timestamp, now),
                                   registry_arg))

\* Faulty variant: the timestamp argument is passed on to _collect_metrics.
DirectTimestamp_passed(timestamp) == timestamp

\* WavefrontDirectReporter.report_now:
\*   metrics = self._collect_metrics(registry or self.registry)
DirectTimestamp(timestamp) == None

Direct_report_now(t) ==
    /\ reporter = "direct"
    /\ \E timestamp \in Timestamps, registry_arg \in RegistryArgs :
          EnterCycle(t, Collecting(timestamp, DirectTimestamp(timestamp),
                                   registry_arg))

\* ----------------------------------------------------------- _collect_metrics
\* self.prefix, by the class of the reporter.
Prefix(kind) == IF kind = "proxy" THEN ProxyPrefix ELSE DirectPrefix

\* The line one pass of the inner loop appends.
CollectedLine(kind, key, value_key, value, is_delta, timestamp) ==
    _get_metric_line(_get_metric_name(Prefix(kind), key, value_key, is_delta),
                     value, timestamp, source, tagStr)

\* One pass of the inner loop, for the pair at call[t].pos.
_collect_metrics(t) ==
    LET c == call[t]
        pairs == Pairs(c.metrics)
    IN /\ c.pc = "collect"
       /\ c.pos <= Len(pairs)
       /\ c.registry_arg = None  \* a registry passed holds no pair to visit
       /\ LET key == pairs[c.pos][1]
              value_key == pairs[c.pos][2]
              value == c.metrics[key][value_key]
              is_delta == is_delta_counter(key, registry)
          IN /\ registry' = IF is_delta THEN CounterDec(registry, key, value)
                            ELSE registry
             /\ reported' = IF is_delta
                             THEN [reported EXCEPT ![key] = @ + value]
                             ELSE reported
             /\ call' = [call EXCEPT ![t] =
                    [c EXCEPT !.pos = @ + 1,
                              !.before_dec =
                                  IF is_delta
                                  THEN Some(registry[key][value_key])
                                  ELSE @,
                              !.metrics_data = Append(@,
                                  CollectedLine(reporter, key, value_key, value,
                                                is_delta, c.timestamp))]]
       /\ UNCHANGED <<reporter, tagStr, batch_size, proxy_socket, nsock,
                      cycles, last_read, incs, written>>

\* Faulty variant: the lines are handed to the delivery without the `if metrics:`.
IfMetrics_unchecked(kind, metrics_data) ==
    IF kind = "proxy" THEN "try" ELSE "post"

\* `if metrics:` in report_now: where the invocation goes on with the lines
\* collected: to _report_points (proxy), to the chunk loop (direct), or to
\* its end.
IfMetrics(kind, metrics_data) ==
    IF metrics_data = <<>> THEN "done"
    ELSE IF kind = "proxy" THEN "try" ELSE "post"

\* The value line i of a frame reports for the delta counter key: 0 when
\* line i is the line of another metric.
DeltaValue(c, i, key) ==
    LET pair == Pairs(c.metrics)[i]
    IN IF pair[1] = key /\ is_delta_counter(key, c.metrics)
       THEN c.metrics[key][pair[2]] ELSE 0

\* The sum of DeltaValue over the lines lo..hi of a frame.
RECURSIVE DeltaSum(_, _, _, _)
DeltaSum(c, key, lo, hi) ==
    IF lo > hi THEN 0
    ELSE DeltaValue(c, lo, key) + DeltaSum(c, key, lo + 1, hi)

\* Faulty variant: `return metrics_data` inside the loops, after one pass.
CollectionDone_first_pass(c) == c.pos > 1

\* The two loops of _collect_metrics are over: every pair of the dump was
\* visited, and `return metrics_data` is reached.
CollectionDone(c) == c.pos > Len(Pairs(c.metrics))

\* _collect_metrics returns and report_now tests `if metrics:`.
metrics_collected(t) ==
    LET c == call[t]
    IN /\ c.pc = "collect"
       /\ CollectionDone(c)
       /\ call' = [call EXCEPT ![t].pc = IfMetrics(reporter, c.metrics_data)]
       /\ UNCHANGED <<reporter, registry, tagStr, batch_size, proxy_socket,
                      nsock, cycles, last_read, incs, reported, written>>

\* report_now returns to its caller normally (pc "done") or with an exception
\* (pc "raised"); the caller goes on and the frame is gone.
report_now_return(t) ==
    /\ call[t].pc \in {"done", "raised"}
    /\ call' = [call EXCEPT ![t] = IdleCall]
    /\ UNCHANGED <<reporter, registry, tagStr, batch_size, proxy_socket,
                   nsock, cycles, last_read, incs, reported, written>>

\* ------------------------------------------------------ WavefrontProxyReporter
\* One entry of the record of socket operations of an invocation.
SocketOp(op, sock, data, res) ==
    [op |-> op, sock |-> sock, data |-> data, res |-> res]

\* Faulty variant: a socket error is logged at once, the batch is never retried.
_report_points_except_no_retry(exc, reconnect) ==
    IF exc \in {SocketError, OtherException} THEN "log" ELSE "propagate"

\* Faulty variant: a socket error is retried whatever the reconnect argument.
_report_points_except_retry_again(exc, reconnect) ==
    IF exc = SocketError THEN "retry"
    ELSE IF exc = OtherException THEN "log"
    ELSE "propagate"

\* Faulty variant: only socket errors are caught, any other exception leaves
\* _report_points.
_report_points_except_socket_only(exc, reconnect) ==
    IF exc = SocketError THEN (IF reconnect THEN "retry" ELSE "log")
    ELSE "propagate"

\* Faulty variant: the retry is made for any exception, not only for
\* socket.error.
_report_points_except_retry_any(exc, reconnect) ==
    IF exc \in {SocketError, OtherException}
    THEN (IF reconnect THEN "retry" ELSE "log")
    ELSE "propagate"

\* The except clauses of _report_points: what is done with an exception
\* raised inside the try block, given the reconnect argument.
_report_points_except(exc, reconnect) ==
    IF exc = SocketError THEN (IF reconnect THEN "retry" ELSE "log")
    ELSE IF exc = OtherException THEN "log"
    ELSE "propagate"

\* Faulty variant: the retry keeps the handle whose operation failed.
_report_points_discard_kept(how, sock) == sock

\* `self.proxy_socket = None` of the `if reconnect:` branch: the handle the
\* reporter holds after the except clause chosen, `sock` being the one held
\* when the exception was raised.
_report_points_discard(how, sock) == IF how = "retry" THEN NoSocket ELSE sock

\* An operation of the try block raised exc, leaving the frame `frame` and
\* the socket attribute `sock`.  A first socket error discards the handle and
\* calls _report_points(metrics, reconnect=False); when that call returns,
\* the outer call returns too.
ProxyRaise(t, frame, exc, sock) ==
    LET how == _report_points_except(exc, frame.reconnect)
    IN /\ call' = [call EXCEPT ![t] =
              IF how = "retry"
              THEN [frame EXCEPT !.reconnect = FALSE, !.pc = "try"]
              ELSE IF how = "log"
              THEN [frame EXCEPT !.logged = @ + 1, !.pc = "done"]
              ELSE [frame EXCEPT !.pc = "raised"]]
       /\ proxy_socket' = _report_points_discard(how, sock)

\* Faulty variant: the retry goes on from the line whose write failed.
FirstLine_resumed(c) == c.line_i

\* `for line in metrics:` starts at the first line of the batch, in the
\* first attempt and in the retry.
FirstLine(c) == 1

\* Faulty variant: _connect is called at every entry of the try block.
NotSocket_always(sock) == TRUE

\* `not self.proxy_socket`: a socket object is true whatever its state, so
\* the test is true only for None.
NotSocket(sock) == sock = NoSocket

\* _report_points enters its try block: `if not self.proxy_socket:`.
_report_points(t) ==
    LET c == call[t]
    IN /\ c.pc = "try"
       /\ call' = [call EXCEPT ![t] =
              [c EXCEPT !.line_i = FirstLine(c),
                        !.pc = IF NotSocket(proxy_socket) THEN "factory"
                               ELSE "send"]]
       /\ UNCHANGED <<reporter, registry, tagStr, batch_size, proxy_socket,
                      nsock, cycles, last_read, incs, reported, written>>

\* _connect, first statement:
\*   self.proxy_socket = self.socket_factory(AF_INET, SOCK_STREAM)
\* The factory returns a new socket or raises socket.error.
_connect_socket(t) ==
    LET c == call[t]
    IN /\ c.pc = "factory"
       /\ \/ /\ nsock' = nsock + 1
             /\ proxy_socket' = NewSocket(nsock + 1)
             /\ call' = [call EXCEPT ![t] =
                    [c EXCEPT !.pc = "connect",
                              !.ops = Append(@, SocketOp("socket", nsock + 1,
                                                         "", Ok))]]
          \/ /\ ProxyRaise(t, [c EXCEPT !.ops = Append(@,
                                  SocketOp("socket", 0, "", SocketError))],
                           SocketError, proxy_socket)
             /\ UNCHANGED nsock
       /\ UNCHANGED <<reporter, registry, tagStr, batch_size, cycles,
                      last_read, incs, reported, written>>

\* The outcomes of connect() on the socket held: with no socket the attribute
\* access fails (AttributeError), a socket already closed refuses, and a new
\* socket connects, or fails with a socket error or another exception.
ConnectOutcomes(sock) ==
    IF sock = NoSocket THEN {OtherException}
    ELSE IF sock.state = "new" THEN {Ok, SocketError, OtherException}
    ELSE {SocketError}

\* _connect, second statement: self.proxy_socket.connect((host, port))
_connect_connect(t) ==
    LET c == call[t]
    IN /\ c.pc = "connect"
       /\ \E res \in ConnectOutcomes(proxy_socket) :
            LET frame == [c EXCEPT !.ops = Append(@,
                             SocketOp("connect", proxy_socket.id, "", res))]
            IN IF res = Ok
               THEN /\ proxy_socket' = [proxy_socket EXCEPT
                                           !.state = "connected"]
                    /\ call' = [call EXCEPT ![t] =
                                   [frame EXCEPT !.pc = "send"]]
               ELSE ProxyRaise(t, frame, res, proxy_socket)
       /\ UNCHANGED <<reporter, registry, tagStr, batch_size, nsock, cycles,
                      last_read, incs, reported, written>>

\* The outcomes of send() on the socket held, each with the state it leaves
\* the socket in: a connected socket takes the bytes, or fails with a socket
\* error (the connection may be lost by it) or with another exception; a
\* socket that is not connected fails with a socket error.
SendOutcomes(sock) ==
    IF sock = NoSocket THEN {<<OtherException, "none">>}
    ELSE IF sock.state = "connected"
    THEN {<<Ok, "connected">>, <<SocketError, "connected">>,
          <<SocketError, "broken">>, <<OtherException, "connected">>}
    ELSE {<<SocketError, sock.state>>}

\* The bytes one pass of the send loop hands to send().
SendData(line) == line \o "\n"

\* One pass of `for line in metrics:
\*                  self.proxy_socket.send(line.encode('utf-8') + b'\n')`;
\* after the last line _report_points returns.
_report_points_send(t) ==
    LET c == call[t]
    IN /\ c.pc = "send"
       /\ c.line_i <= Len(c.metrics_data)
       /\ \E out \in SendOutcomes(proxy_socket) :
            LET sock == [proxy_socket EXCEPT !.state = out[2]]
                frame == [c EXCEPT !.ops = Append(@,
                             SocketOp("send", proxy_socket.id,
                                      SendData(c.metrics_data[c.line_i]),
                                      out[1]))]
            IN IF out[1] = Ok
               THEN /\ proxy_socket' = sock
                    /\ call' = [call EXCEPT ![t] =
                           [frame EXCEPT
                               !.line_i = @ + 1,
                               !.pc = IF c.line_i = Len(c.metrics_data)
                                      THEN "done" ELSE "send"]]
                    /\ written' = [key \in DeltaKeys |->
                           written[key] + DeltaValue(c, c.line_i, key)]
               ELSE /\ ProxyRaise(t, frame, out[1], sock)
                    /\ UNCHANGED written
       /\ UNCHANGED <<reporter, registry, tagStr, batch_size, nsock, cycles,
                      last_read, incs, reported>>

\* self.proxy_socket.close()
SocketClose(sock) == [sock EXCEPT !.state = "closed", !.closes = @ + 1]

\* WavefrontProxyReporter.stop:
\*   super(WavefrontProxyReporter, self).stop()
\*   if self.proxy_socket: self.proxy_socket.close()
\* The stop() of the base class (pyformance) sets the stop event of the
\* reporting loop, which nothing in the reporters reads: report_now can
\* still be called.  stop() is called while no report_now invocation is in
\* progress.  (The direct reporter inherits stop() from pyformance: it
\* closes nothing.)
stop ==
    /\ reporter = "proxy"
    /\ \A t \in Threads : call[t].pc = "idle"
    /\ proxy_socket.closes < MaxCloses
    /\ proxy_socket' = IF proxy_socket # NoSocket
                       THEN SocketClose(proxy_socket)
                       ELSE proxy_socket
    /\ UNCHANGED <<reporter, registry, tagStr, batch_size, nsock, cycles,
                   last_read, call, incs, reported, written>>

\* ----------------------------------------------------- WavefrontDirectReporter
\* Faulty variant: the slice stops one element early, metrics[i:i+chunk_size-1].
_get_chunks_short_slice(metrics, chunk_size) ==
    LET starts == PyRange(0, Len(metrics), chunk_size)
    IN [k \in 1..Len(starts) |->
          Slice(metrics, starts[k], starts[k] + chunk_size - 1)]

\* _get_chunks: `for i in range(0, len(metrics), chunk_size):
\*                   yield metrics[i:i+chunk_size]`, as the list it generates.
_get_chunks(metrics, chunk_size) ==
    LET starts == PyRange(0, Len(metrics), chunk_size)
    IN [k \in 1..Len(starts) |->
          Slice(metrics, starts[k], starts[k] + chunk_size)]

\* The final response statuses the endpoint can answer with; requests.post
\* can also raise (a transport error), which status 0 stands for.
Statuses == {200, 304, 503}
TransportError == 0
PostOutcomes == Statuses \cup {TransportError}

\* response.raise_for_status() raises HTTPError for a 4xx or 5xx status.
RaiseForStatus(status) == 400 <= status /\ status < 600

\* The try block of WavefrontDirectReporter._report_points: whether an
\* exception is raised inside it.
PostRaises(outcome) == outcome = TransportError \/ RaiseForStatus(outcome)

\* Faulty variant: the exception is not caught, it leaves report_now.
_report_points_direct_except_uncaught(exc) == "propagate"

\* `except Exception: logging.error(...)`: what is done with it.
_report_points_direct_except(exc) ==
    IF exc \in {SocketError, OtherException} THEN "log" ELSE "propagate"

\* One pass of `for chunk in chunks:
\*                  metrics_str = '\n'.join(chunk).encode('utf-8')
\*                  self._report_points(metrics_str)`;
\* after the last chunk report_now returns.
Direct_report_points(t) ==
    LET c == call[t]
        chunks == _get_chunks(c.metrics_data, batch_size)
    IN /\ c.pc = "post"
       /\ c.chunk_k <= Len(chunks)
       /\ \E outcome \in PostOutcomes :
            LET how == IF PostRaises(outcome)
                       THEN _report_points_direct_except(OtherException)
                       ELSE "return"
                post == [chunk |-> chunks[c.chunk_k],
                         data |-> Join("\n", chunks[c.chunk_k]),
                         outcome |-> outcome,
                         logged |-> (how = "log")]
                first == PyRange(0, Len(c.metrics_data), batch_size)[c.chunk_k]
            IN /\ call' = [call EXCEPT ![t] =
                      [c EXCEPT
                          !.posts = Append(@, post),
                          !.logged = IF how = "log" THEN @ + 1 ELSE @,
                          !.chunk_k = @ + 1,
                          !.pc = IF how = "propagate" THEN "raised"
                                 ELSE IF c.chunk_k = Len(chunks) THEN "done"
                                 ELSE "post"]]
               /\ written' = [key \in DeltaKeys |->
                      IF outcome \in 200..299
                      THEN written[key]
                             + DeltaSum(c, key, first + 1,
                                        first + Len(chunks[c.chunk_k]))
                      ELSE written[key]]
       /\ UNCHANGED <<reporter, registry, tagStr, batch_size, proxy_socket,
                      nsock, cycles, last_read, incs, reported>>

\* ------------------------------------------------------------ specifications
Next ==
    \/ \E key \in Keys : counter_inc(key)
    \/ \E t \in Scheduler : Proxy_report_now(t)
    \/ \E t \in Scheduler : Direct_report_now(t)
    \/ \E t \in Scheduler : _collect_metrics(t)
    \/ \E t \in Scheduler : metrics_collected(t)
    \/ \E t \in Scheduler : _report_points(t)
    \/ \E t \in Scheduler : _connect_socket(t)
    \/ \E t \in Scheduler : _connect_connect(t)
    \/ \E t \in Scheduler : _report_points_send(t)
    \/ \E t \in Scheduler : Direct_report_points(t)
    \/ \E t \in Scheduler : report_now_return(t)
    \/ stop

Spec == Init /\ [][Next]_vars

\* Two threads call report_now() on one proxy reporter: the reporter has no
\* lock, and report_now is a public method that a thread of the application
\* can call while the scheduler thread runs a cycle.  The registry holds one
\* two-valued metric, so a batch is two lines; the calls pass no argument.
InitConcurrent ==
    /\ reporter = "proxy"
    /\ registry = NewRegistry({"lat"})
    /\ tagStr \in {TagStr(tags) : tags \in TagChoices}
    /\ batch_size = DefaultBatchSize
    /\ proxy_socket = NoSocket
    /\ nsock = 0
    /\ cycles = 0
    /\ last_read = [key \in DeltaKeys |-> None]
    /\ incs = [key \in DeltaKeys |-> 0]
    /\ reported = [key \in DeltaKeys |-> 0]
    /\ written = [key \in DeltaKeys |-> 0]
    /\ call = [t \in Threads |-> IdleCall]

\* report_now() with the defaults registry=None, timestamp=None.
Proxy_report_now_defaults(t) ==
    /\ reporter = "proxy"
    /\ \E now \in ClockReadings :
          EnterCycle(t, Collecting(None, ProxyTimestamp(None, now), None))

NextConcurrent ==
    \/ \E t \in Threads : Proxy_report_now_defaults(t)
    \/ \E t \in Threads : _collect_metrics(t)
    \/ \E t \in Threads : metrics_collected(t)
    \/ \E t \in Threads : _report_points(t)
    \/ \E t \in Threads : _connect_socket(t)
    \/ \E t \in Threads : _connect_connect(t)
    \/ \E t \in Threads : _report_points_send(t)
    \/ \E t \in Threads : report_now_return(t)

SpecConcurrent == InitConcurrent /\ [][NextConcurrent]_vars

\* ------------------------------------------------------------------- claims
\* The positions of the socket operations of a frame that failed.
Failures(c) == {n \in 1..Len(c.ops) : c.ops[n].res # Ok}

\* The socket ids the operations 1..n of a frame were made on.
SocksUpTo(c, n) == {c.ops[m].sock : m \in 1..n} \cup {c.entry_socket.id}

\* C1 hypothesis: the invocation is over and exactly one of its socket
\* operations failed, with a socket error.
FailedOnce(c) ==
    /\ reporter = "proxy"
    /\ c.pc = "done"
    /\ Cardinality(Failures(c)) = 1
    /\ \A n \in Failures(c) : c.ops[n].res = SocketError

\* C1: proxy send, fail once then succeed.  When exactly one socket
\* operation of _report_points fails with a socket error and every later one
\* succeeds, then after the failure exactly one socket is created and
\* connected, it is a socket not used before, every line of the batch is
\* sent over it in the original order, each followed by one newline, nothing
\* else is sent, and no error is logged.
C1_FailOnceThenSucceed ==
    \A t \in Threads :
        LET c == call[t]
        IN FailedOnce(c) =>
             \A f \in Failures(c) :
               \E s \in 1..nsock :
                 /\ s \notin SocksUpTo(c, f)
                 /\ SubSeq(c.ops, f + 1, Len(c.ops)) =
                      << [op |-> "socket", sock |-> s, data |-> "", res |-> Ok],
                         [op |-> "connect", sock |-> s, data |-> "", res |-> Ok] >>
                      \o [n \in 1..Len(c.metrics_data) |->
                            [op |-> "send", sock |-> s,
                             data |-> c.metrics_data[n] \o "\n", res |-> Ok]]
                 /\ c.logged = 0
                 /\ proxy_socket.id = s
                 /\ proxy_socket.state = "connected"

\* C1 witness: a batch of several lines whose first attempt ran over a
\* connection kept from an earlier cycle and failed at the write of its
\* second line, and whose retry delivered.
C1_Witness ==
    \E t \in Threads :
        LET c == call[t]
        IN /\ FailedOnce(c)
           /\ Len(c.metrics_data) >= 2
           /\ c.entry_socket # NoSocket
           /\ \E f \in Failures(c) : f = 2 /\ c.ops[f].op = "send"

\* C2: proxy send, fail twice.  One call of _report_points makes at most two
\* attempts: at most two of its socket operations fail, and once two have
\* failed the call is over, with exactly one error logged and with nothing
\* attempted after the second failure (the rest of the batch is dropped).
\* Each attempt makes at most one socket(), one connect() and one send() per
\* line, so the call terminates.
C2_FailTwiceDrops ==
    \A t \in Threads :
        LET c == call[t]
            fails == Failures(c)
        IN /\ Cardinality(fails) <= 2
           /\ Len(c.ops) <= 2 * (Len(c.metrics_data) + 2)
           /\ Cardinality(fails) = 2 =>
                /\ c.pc = "done"
                /\ c.logged = 1
                /\ Len(c.ops) \in fails
                /\ \E f \in fails : f < Len(c.ops) /\ c.ops[f].res = SocketError

\* C2 witness: the first attempt failed while sending and the retry failed
\* too, after it had sent a line.
C2_Witness ==
    \E t \in Threads :
        LET c == call[t]
        IN /\ c.pc = "done"
           /\ Cardinality(Failures(c)) = 2
           /\ \A f \in Failures(c) : c.ops[f].op = "send" /\ c.ops[f].res = SocketError
           /\ \E n \in 1..Len(c.ops) :
                 /\ \E f \in Failures(c) : f < n
                 /\ c.ops[n].op = "send" /\ c.ops[n].res = Ok

\* The positions of Pairs(c.metrics) the collector of a frame has visited.
Visited(c) == 1..(c.pos - 1)

\* A second report: the dump of a frame read a delta counter that an earlier
\* cycle had read and that was not incremented since; the earlier cycle
\* read c.fresh[key][1].  The dump then read 0 and the line reports 0.
C3_SecondReportIsZero ==
    \A t \in Threads :
        LET c == call[t]
            pairs == Pairs(c.metrics)
        IN \A p \in Visited(c) :
             LET key == pairs[p][1]
             IN (key \in DeltaKeys /\ c.fresh[key] # None) =>
                  /\ c.metrics[key].count = 0
                  /\ c.metrics_data[p] =
                       _get_metric_line(
                           get_delta_name(Prefix(reporter), key, "count"),
                           0, c.timestamp, source, tagStr)

\* A pass of the collector loop over a value N: the line appended reports N;
\* for a delta counter the registry counter goes down by exactly N and the
\* rest of the registry stays; for any other metric the registry stays.
C3_CollectStep ==
    \A t \in Threads :
        LET c == call[t]
            pairs == Pairs(c.metrics)
        IN (c.pc = "collect" /\ call'[t].pos = c.pos + 1) =>
             LET key == pairs[c.pos][1]
                 value_key == pairs[c.pos][2]
                 N == c.metrics[key][value_key]
             IN /\ call'[t].metrics_data[c.pos] =
                     _get_metric_line(
                         IF key \in DeltaKeys
                         THEN get_delta_name(Prefix(reporter), key, value_key)
                         ELSE Prefix(reporter) \o key \o "." \o value_key,
                         N, c.timestamp, source, tagStr)
                /\ IF key \in DeltaKeys
                   THEN /\ registry'[key].count = registry[key].count - N
                        /\ \A k \in DOMAIN registry \ {key} :
                               registry'[k] = registry[k]
                        /\ DOMAIN registry' = DOMAIN registry
                   ELSE registry' = registry

\* C3: delta reset-on-read.  A report cycle that reads and reports N for a
\* delta counter decrements the registry counter by exactly N, so a second
\* cycle with no increment in between reports 0; metrics that are not delta
\* counters are never decremented by the collection.
C3_DeltaResetOnRead == []C3_SecondReportIsZero /\ [][C3_CollectStep]_vars

\* C3 witness: a cycle has collected a delta counter for which the cycle
\* before it reported 2, with no increment in between.
C3_Witness ==
    \E t \in Threads :
        LET c == call[t]
        IN /\ "dreq" \in DOMAIN c.metrics
           /\ c.fresh["dreq"] = Some(2)
           /\ c.pos > 1
           /\ c.metrics["dreq"].count = 0

\* ceil(n / b) for n >= 0, b >= 1.
CeilDiv(n, b) == (n + b - 1) \div b

\* The smaller of two integers.
Min(a, b) == IF a < b THEN a ELSE b

\* The concatenation of the chunks of the POSTs 1..k of a frame.
RECURSIVE PostedLines(_, _)
PostedLines(c, k) ==
    IF k = 0 THEN <<>> ELSE PostedLines(c, k - 1) \o c.posts[k].chunk

\* C4: direct chunking.  With n lines and batch size b, the i-th POST
\* (from 0) carries the lines [i*b, min((i+1)*b, n)) joined by newlines; when
\* report_now is over exactly ceil(n/b) POSTs were issued, every chunk but
\* the last has b lines, the last has 1..b lines, and the chunks concatenated
\* are the lines collected.
C4_DirectChunking ==
    \A t \in Threads :
        LET c == call[t]
            n == Len(c.metrics_data)
            b == batch_size
        IN reporter = "direct" =>
             /\ \A k \in 1..Len(c.posts) :
                  LET lo == (k - 1) * b
                      hi == Min(k * b, n)
                      lines == [j \in 1..(hi - lo) |-> c.metrics_data[lo + j]]
                  IN /\ lo < n
                     /\ c.posts[k].chunk = lines
                     /\ c.posts[k].data = Join("\n", lines)
                     /\ Len(c.posts[k].chunk) \in 1..b
                     /\ k < CeilDiv(n, b) => Len(c.posts[k].chunk) = b
             /\ (c.pc = "done" /\ n >= 1) =>
                  /\ Len(c.posts) = CeilDiv(n, b)
                  /\ PostedLines(c, Len(c.posts)) = c.metrics_data

\* C4 witness: 3 lines with batch size 2 were POSTed as 2 lines, then 1 line
\* (as 25000 lines with batch size 10000 are POSTed as 10000, 10000, 5000).
C4_Witness ==
    \E t \in Threads :
        LET c == call[t]
        IN /\ reporter = "direct" /\ c.pc = "done"
           /\ Len(c.metrics_data) = 3 /\ batch_size = 2
           /\ Len(c.posts) = 2
           /\ Len(c.posts[1].chunk) = 2 /\ Len(c.posts[2].chunk) = 1

\* A POST failed: the transport raised, or the status is an error status
\* (4xx, 5xx).
PostFailed(post) ==
    post.outcome = TransportError \/ post.outcome \in 400..599

\* C5: direct chunk isolation.  Whatever the outcomes of the POSTs, each
\* chunk is POSTed exactly once: a failed POST is logged, it is not
\* repeated and the loop goes on with the next chunk, so that at the end
\* the chunks POSTed are the lines collected, each line once and in order,
\* and the errors logged are the failed POSTs, one each.
C5_ChunkIsolation ==
    \A t \in Threads :
        LET c == call[t]
            failed == {k \in 1..Len(c.posts) : PostFailed(c.posts[k])}
        IN reporter = "direct" =>
             /\ c.pc # "raised"
             /\ c.logged = Cardinality(failed)
             /\ \A k \in 1..Len(c.posts) : c.posts[k].logged = (k \in failed)
             /\ Len(PostedLines(c, Len(c.posts))) <= Len(c.metrics_data)
             /\ PostedLines(c, Len(c.posts)) =
                  SubSeq(c.metrics_data, 1, Len(PostedLines(c, Len(c.posts))))
             /\ (c.pc = "done" /\ c.metrics_data # <<>>) =>
                  PostedLines(c, Len(c.posts)) = c.metrics_data
             /\ (c.pc = "post") =>
                  Len(PostedLines(c, Len(c.posts))) < Len(c.metrics_data)

\* C5 witness: of three POSTs the second failed with a transport error, the
\* first and the third were accepted.
C5_Witness ==
    \E t \in Threads :
        LET c == call[t]
        IN /\ reporter = "direct" /\ c.pc = "done"
           /\ Len(c.posts) = 3
           /\ c.posts[1].outcome = 200
           /\ c.posts[2].outcome = TransportError
           /\ c.posts[3].outcome = 200
           /\ c.logged = 1

\* C6 as claimed: a chunk whose POST got a response is treated as delivered
\* (no error is logged for it) exactly when the status is in 200..299.
C6_SuccessIsOnly2xx ==
    \A t \in Threads :
        \A k \in 1..Len(call[t].posts) :
            LET post == call[t].posts[k]
            IN post.outcome # TransportError =>
                 (~post.logged <=> post.outcome \in 200..299)

\* The first failed socket operation of a frame, when it is the socket error
\* that the one retry follows.
Retried(c) ==
    {f \in Failures(c) : /\ c.ops[f].res = SocketError
                         /\ \A g \in Failures(c) : f <= g}

\* C7: no transport failure escapes a cycle.  Whatever operation fails and
\* whatever exception it raises, in the first attempt or in the retry of the
\* proxy reporter or in a POST of the direct reporter, no exception leaves
\* report_now: the invocation ends normally, and every failure that is not
\* the retried first socket error has been logged, once.
C7_NoFailureEscapes ==
    \A t \in Threads :
        LET c == call[t]
        IN /\ c.pc # "raised"
           /\ (reporter = "proxy" /\ c.pc \in {"done", "idle"}) =>
                c.logged = Cardinality(Failures(c) \ Retried(c))
           /\ (reporter = "proxy" /\ c.pc \notin {"done", "idle"}) =>
                /\ c.logged = 0
                /\ Failures(c) = Retried(c)
           /\ (reporter = "direct") =>
                c.logged = Cardinality({k \in 1..Len(c.posts) :
                                          PostRaises(c.posts[k].outcome)})

\* C7 witness: the first attempt of the proxy reporter failed with a socket
\* error and its retry with another exception, and report_now ended normally.
C7_Witness ==
    \E t \in Threads :
        LET c == call[t]
        IN /\ reporter = "proxy" /\ c.pc = "done"
           /\ \E f, g \in Failures(c) :
                 /\ f < g
                 /\ c.ops[f].res = SocketError
                 /\ c.ops[g].res = OtherException
           /\ c.logged = 1

\* C8 as claimed: stop() leaves no open connection, and a second stop() on
\* a connection already closed closes nothing again and changes nothing.
C8_SecondStopClosesNothing ==
    [][stop =>
         /\ proxy_socket' = NoSocket \/ proxy_socket'.state = "closed"
         /\ proxy_socket.state = "closed" => proxy_socket' = proxy_socket]_vars

\* What stop() does do: it leaves the reporter holding no open
\* connection (no socket, or a closed one); a second stop() calls close()
\* once more on the closed socket the reporter still holds, and leaves the
\* same socket, closed.
StopLeavesClosed ==
    [][stop =>
         /\ proxy_socket' = NoSocket \/ proxy_socket'.state = "closed"
         /\ proxy_socket'.id = proxy_socket.id
         /\ proxy_socket.state = "closed" =>
              /\ proxy_socket'.closes = proxy_socket.closes + 1
              /\ proxy_socket'.state = "closed"
         /\ UNCHANGED <<reporter, registry, tagStr, batch_size, nsock, cycles,
                        last_read, call, incs, reported, written>>]_vars

\* C9: an empty collection is a no-op.  When _collect_metrics returned no
\* line, report_now is over: no socket was created, connected or written,
\* no POST was issued, no error was logged, nothing was raised, and the
\* proxy connection is as it was at the entry.
C9_EmptyIsNoOp ==
    \A t \in Threads :
        LET c == call[t]
        IN (c.pc \notin {"idle", "collect"} /\ c.metrics_data = <<>>) =>
             /\ c.pc = "done"
             /\ c.ops = <<>>
             /\ c.posts = <<>>
             /\ c.logged = 0
             /\ proxy_socket = c.entry_socket
             /\ nsock = c.entry_nsock

\* C9 witness: a proxy reporter holding a live connection ran a cycle that
\* collected nothing.
C9_Witness ==
    \E t \in Threads :
        LET c == call[t]
        IN /\ reporter = "proxy" /\ c.pc = "done"
           /\ c.metrics_data = <<>>
           /\ c.entry_socket.state = "connected"

\* The name of the line collected at position p of a frame.
LineName(c, p) ==
    LET key == Pairs(c.metrics)[p][1]
        value_key == Pairs(c.metrics)[p][2]
    IN _get_metric_name(Prefix(reporter), key, value_key,
                        is_delta_counter(key, c.metrics))

\* C10 as claimed: for every integer timestamp given to _get_metric_line,
\* zero included, the line carries the timestamp segment between the value
\* and the source field; with no timestamp it is the same line without the
\* segment.
C10_SegmentIffSupplied ==
    \A t \in Threads :
        LET c == call[t]
        IN \A p \in Visited(c) :
             LET value == c.metrics[Pairs(c.metrics)[p][1]][Pairs(c.metrics)[p][2]]
             IN c.metrics_data[p] =
                  IF c.timestamp # None
                  THEN StampedLine(LineName(c, p), value, c.timestamp[1],
                                   source, tagStr)
                  ELSE PlainLine(LineName(c, p), value, source, tagStr)

\* The batch of a proxy invocation was dropped: the invocation is over, a
\* first operation failed with a socket error and an operation of the retry
\* failed with a socket error too.
Dropped(c) ==
    /\ reporter = "proxy"
    /\ c.pc = "done"
    /\ Cardinality(Failures(c)) = 2
    /\ \A f \in Failures(c) : c.ops[f].res = SocketError

\* C11 as claimed: after a send call whose first attempt and whose retry both
\* failed with a connect or write error, the failed handle has been
\* discarded: the reporter holds no socket (proxy_socket is None).
C11_DroppedBatchDiscardsHandle ==
    \A t \in Threads :
        Dropped(call[t]) => proxy_socket = NoSocket

\* What the code leaves after a dropped batch: the handle of the retry.  It
\* is None only when the retry failed in socket_factory; when the retry
\* failed in connect() or in send(), the reporter keeps the socket the retry
\* created, which was never connected or whose write failed.
DroppedBatchKeepsRetryHandle ==
    \A t \in Threads :
        LET c == call[t]
            last == c.ops[Len(c.ops)]
        IN Dropped(c) =>
             IF last.op = "socket" THEN proxy_socket = NoSocket
             ELSE /\ proxy_socket # NoSocket
                  /\ proxy_socket.id = last.sock
                  /\ proxy_socket.id \notin
                        SocksUpTo(c, CHOOSE f \in Failures(c) :
                                        \A g \in Failures(c) : f <= g)
                  /\ last.op = "connect" => proxy_socket.state = "new"

\* The socket of operation n of a frame was connected when the operation was
\* made: it was connected at the entry of the invocation, or an earlier
\* connect() of the invocation on it succeeded.
LiveBefore(c, n) ==
    \/ c.ops[n].sock = c.entry_socket.id /\ c.entry_socket.state = "connected"
    \/ \E m \in 1..(n - 1) :
          /\ c.ops[m].op = "connect" /\ c.ops[m].res = Ok
          /\ c.ops[m].sock = c.ops[n].sock

\* The operations of a frame that failed although they reached the relay or
\* the system: a socket() or a connect(), or a send() on a socket that was
\* connected.  (A send() on a handle left unconnected, broken or closed by
\* an earlier cycle fails without reaching the relay.)
Refused(c) ==
    {n \in Failures(c) : c.ops[n].op \in {"socket", "connect"}
                         \/ LiveBefore(c, n)}

\* Every line of the batch of a frame was written, in order and each
\* followed by a newline, over one connection, which the reporter holds.
Delivered(c) ==
    LET k == Len(c.ops) - Len(c.metrics_data)
    IN /\ k >= 0
       /\ \A n \in 1..Len(c.metrics_data) :
             c.ops[k + n] = SocketOp("send", proxy_socket.id,
                                     SendData(c.metrics_data[n]), Ok)
       /\ proxy_socket.state = "connected"

\* C12: recovery after failed cycles.  Whatever handle the earlier cycles
\* left (none, connected, never connected, broken, closed), a report_now
\* that collected a non-empty batch attempts delivery: it is never over
\* without a socket operation, and its first operation is a send on the
\* handle held or the creation of a socket.  When the relay accepts every
\* connect and every write of the cycle that reaches it, every line of the
\* batch is delivered and nothing is logged.
C12_RecoveryAfterFailedCycles ==
    \A t \in Threads :
        LET c == call[t]
        IN (reporter = "proxy" /\ c.pc = "done" /\ c.metrics_data # <<>>) =>
             /\ c.ops # <<>>
             /\ c.ops[1].op = IF c.entry_socket = NoSocket THEN "socket"
                              ELSE "send"
             /\ Refused(c) = {} => (Delivered(c) /\ c.logged = 0)

\* C12 witness: a cycle entered with the handle of a failed cycle (a socket
\* whose connect() failed in that cycle's retry) delivered its batch of
\* several lines.
C12_Witness ==
    \E t \in Threads :
        LET c == call[t]
        IN /\ reporter = "proxy" /\ c.pc = "done"
           /\ c.entry_socket.state = "new"
           /\ Len(c.metrics_data) >= 2
           /\ Refused(c) = {}
           /\ Delivered(c)

\* C13: delta conservation under concurrent increments.  Other threads
\* increment a delta counter at any point of a report cycle, between the
\* dump and the decrement included.  The decrement subtracts the value the
\* line reports (the value of the dump, not the live one), so at every
\* moment the values reported so far plus the value the registry holds are
\* the increments made so far: no increment is lost, none is reported
\* twice, and the counter never goes below zero.
C13_DeltaConservation ==
    \A key \in DeltaKeys \cap DOMAIN registry :
        /\ reported[key] + registry[key].count = incs[key]
        /\ registry[key].count >= 0
        /\ reported[key] >= 0

\* C13 witness: the dump of a cycle read 1, the counter was incremented to
\* 2 before the decrement, and the decrement left 1 or more in the registry
\* for the next cycle.
C13_Witness ==
    \E t \in Threads :
        LET c == call[t]
        IN /\ "dreq" \in DOMAIN c.metrics
           /\ c.metrics["dreq"].count = 1
           /\ c.before_dec = Some(2)
           /\ reported["dreq"] >= 1
           /\ registry["dreq"].count >= 1

\* The delivery of a frame has begun: a socket operation or a POST was made.
Delivering(c) == c.ops # <<>> \/ c.posts # <<>>

\* Once an invocation is past its collection, the collection is complete:
\* every pair of the dump was read and has its line, and while the
\* collection is in progress nothing was connected, written or POSTed.
C14_CollectedWhenDelivering ==
    \A t \in Threads :
        LET c == call[t]
        IN /\ c.pc = "collect" => ~Delivering(c)
           /\ (Delivering(c) \/ c.pc \in {"try", "factory", "connect", "send",
                                          "post"}) =>
                /\ c.pos = Len(Pairs(c.metrics)) + 1
                /\ Len(c.metrics_data) = Len(Pairs(c.metrics))

\* A step taken after the delivery of an invocation has begun and before the
\* invocation returns reads no pair, appends no line and decrements no
\* counter.
C14_NoCollectionStep ==
    \A t \in Threads :
        LET c == call[t]
        IN (Delivering(c) /\ call'[t].pc # "idle") =>
             /\ call'[t].pos = c.pos
             /\ call'[t].metrics_data = c.metrics_data
             /\ call'[t].metrics = c.metrics
             /\ reported' = reported
             /\ \A key \in CounterKeys \cap DOMAIN registry :
                    registry'[key].count >= registry[key].count

\* C14: collection before delivery.  Within one report_now invocation of
\* either reporter, every read of the dump and every decrement of a delta
\* counter happens before the first socket(), connect(), send() or POST of
\* the invocation; no line is sent while the collection is in progress.
C14_CollectionBeforeDelivery ==
    []C14_CollectedWhenDelivering /\ [][C14_NoCollectionStep]_vars

\* C14 witness: an invocation that collected three lines, a delta counter
\* of value 2 decremented among them, is in the middle of its delivery.
C14_Witness ==
    \E t \in Threads :
        LET c == call[t]
        IN /\ c.pc \in {"send", "post"}
           /\ Delivering(c)
           /\ Len(c.metrics_data) = 3
           /\ c.before_dec = Some(2)
           /\ reported["dreq"] = 2

\* A thread is inside _report_points: between the entry of the try block and
\* the return of the call.
InReportPoints(c) == c.pc \in {"try", "factory", "connect", "send"}

\* A thread is in the middle of its batch: it has written a line of the
\* current attempt and has lines left to write.
MidBatch(c) == c.pc = "send" /\ c.line_i > 1

\* The socket the latest operation of a frame was made on.
LastSock(c) == c.ops[Len(c.ops)].sock

\* Two invocations are never inside _report_points at once.
Serialized ==
    \A t, u \in Threads :
        t # u => ~(InReportPoints(call[t]) /\ InReportPoints(call[u]))

\* The lines of two batches are never interleaved on a socket: while a
\* thread is in the middle of its batch on a socket, no other thread has
\* written a line of its own current attempt to that socket.
BatchesNotInterleaved ==
    \A t, u \in Threads :
        (t # u /\ MidBatch(call[t]) /\ call[u].pc \in {"send", "done"}
              /\ call[u].line_i > 1) =>
            LastSock(call[t]) # LastSock(call[u])

\* The handle a thread is writing its batch to is not discarded or replaced
\* under it.
HandleKept ==
    \A t \in Threads :
        MidBatch(call[t]) => proxy_socket.id = LastSock(call[t])

\* C15 as claimed: two report_now invocations on one proxy reporter are
\* serialized, so the lines of two batches are never interleaved on the
\* socket and a handle in use by one invocation is never discarded or
\* replaced by the other.
C15_ExclusiveConnection ==
    /\ Serialized
    /\ BatchesNotInterleaved
    /\ HandleKept

\* The operations n.. of a frame are the sends of the lines of its batch
\* written so far, in order, on the socket s.
SendsFrom(c, n, s) ==
    /\ Len(c.ops) - n + 1 <= Len(c.metrics_data)
    /\ \A m \in n..Len(c.ops) :
          /\ c.ops[m].op = "send" /\ c.ops[m].sock = s
          /\ c.ops[m].data = SendData(c.metrics_data[m - n + 1])

\* C16: persistent, lazily created proxy connection.  The reporter holds no
\* connection at construction, and creates no socket while it collects or
\* when the batch is empty.  In a cycle in which no socket operation fails:
\* entered with a live connection, the cycle creates and connects nothing
\* and writes every line over that connection, which the reporter keeps;
\* entered with no connection, it creates and connects exactly one socket,
\* before its first write, writes every line over it and keeps it
\* connected.  So any number of consecutive error-free non-empty cycles
\* perform one connect in all, in the first of them.
C16_LazyPersistentConnection ==
    /\ cycles = 0 => (proxy_socket = NoSocket /\ nsock = 0)
    /\ reporter = "direct" => (proxy_socket = NoSocket /\ nsock = 0)
    /\ \A t \in Threads :
         LET c == call[t]
         IN /\ (c.pc = "collect" \/ (c.pc # "idle" /\ c.metrics_data = <<>>))
                 => (nsock = c.entry_nsock /\ proxy_socket = c.entry_socket)
            /\ (c.pc # "idle" /\ Failures(c) = {}
                  /\ c.entry_socket.state = "connected") =>
                 /\ nsock = c.entry_nsock
                 /\ proxy_socket = c.entry_socket
                 /\ SendsFrom(c, 1, c.entry_socket.id)
            /\ (c.pc # "idle" /\ Failures(c) = {} /\ c.ops # <<>>
                  /\ c.entry_socket = NoSocket) =>
                 /\ nsock = c.entry_nsock + 1
                 /\ proxy_socket.id = nsock
                 /\ c.ops[1] = SocketOp("socket", nsock, "", Ok)
                 /\ Len(c.ops) >= 2 =>
                      /\ c.ops[2] = SocketOp("connect", nsock, "", Ok)
                      /\ SendsFrom(c, 3, nsock)
                      /\ proxy_socket.state = "connected"
            /\ (c.pc = "done" /\ Failures(c) = {} /\ c.ops # <<>>
                  /\ c.entry_socket.state \in {"none", "connected"}) =>
                 /\ proxy_socket.state = "connected"
                 /\ Len(c.ops) = Len(c.metrics_data)
                       + (IF c.entry_socket = NoSocket THEN 2 ELSE 0)

\* C16 witness: the second cycle was entered with the one socket created so
\* far connected, and has written its batch of several lines over it; no
\* second socket was created.
C16_Witness ==
    \E t \in Threads :
        LET c == call[t]
        IN /\ reporter = "proxy" /\ c.pc = "done" /\ cycles = 2
           /\ c.entry_socket.state = "connected"
           /\ c.entry_nsock = 1
           /\ Failures(c) = {}
           /\ Len(c.metrics_data) >= 2
           /\ Len(c.ops) = Len(c.metrics_data)
           /\ nsock = 1

\* C17 as claimed: over any sequence of cycles the sum of the values of a
\* delta counter that were delivered is at most the total of its increments.
C17_DeliveredAtMostIncrements ==
    \A key \in DeltaKeys : written[key] <= incs[key]

\* The decrement made during the collection stands whatever the delivery
\* does: once an invocation is past its collection, and until it returns,
\* the registry holds the increments less all the values reported, the one
\* of this invocation included, whether the batch is delivered, retried,
\* dropped or a chunk fails.  The values that reached the network are at
\* most twice the values reported (a line is written again by the one retry
\* of the proxy reporter) and at most the values reported for the direct
\* reporter.
C17_DecrementStands ==
    /\ \A t \in Threads :
         LET c == call[t]
         IN \A key \in DeltaKeys \cap DOMAIN c.metrics :
              (c.pc \notin {"idle", "collect"} /\ c.registry_arg = None) =>
                 /\ c.before_dec # None
                 /\ c.before_dec[1] >= c.metrics[key].count
                 /\ registry[key].count = incs[key] - reported[key]
    /\ \A key \in DeltaKeys :
         /\ written[key] <= 2 * reported[key]
         /\ reporter = "direct" => written[key] <= reported[key]
         /\ reported[key] <= incs[key]

\* No step of a delivery, and no return of report_now, restores a counter:
\* while an invocation is past its collection every step leaves the
\* registry and the sum of the values reported as they are.
C17_NoRollbackStep ==
    (\E t \in Threads : call[t].pc \notin {"idle", "collect"}) =>
        (registry' = registry /\ reported' = reported)

\* C17, amended: delta counts are not restored on a failed delivery.  The
\* decrement of a delta counter is never rolled back, so the value of a line
\* that was dropped is lost: it is in no later report.  The sum of the
\* values delivered can be less than the increments; it is at most the
\* increments for the direct reporter, and at most twice the increments for
\* the proxy reporter, whose retry writes again the lines of the batch that
\* were written before the failure.
C17_DeltaNotRestored == []C17_DecrementStands /\ [][C17_NoRollbackStep]_vars

\* C17 witness: the second cycle of a proxy reporter is over; the first had
\* read 2 for the delta counter and its batch was dropped with nothing
\* written; the second read 0, and nothing of the 2 increments reached the
\* network.
C17_Witness ==
    \E t \in Threads :
        LET c == call[t]
        IN /\ reporter = "proxy" /\ c.pc = "done" /\ cycles = 2
           /\ "dreq" \in DOMAIN c.metrics
           /\ c.metrics["dreq"].count = 0
           /\ incs["dreq"] = 2
           /\ reported["dreq"] = 2
           /\ written["dreq"] = 0
           /\ registry["dreq"].count = 0

\* The positions of the operations of a frame that are a send() of line n
\* of its batch, and those of them that succeeded.
SendsOf(c, n) ==
    {m \in 1..Len(c.ops) : /\ c.ops[m].op = "send"
                           /\ c.ops[m].data = SendData(c.metrics_data[n])}
WritesOf(c, n) == {m \in SendsOf(c, n) : c.ops[m].res = Ok}

\* The send() at position m of a frame is in the order of the batch: it is
\* the send of the first line at the start of an attempt (the first
\* operation of the call, or the one after a connect), or the send of the
\* line after the one the send before it wrote, on the same socket.
InBatchOrder(c, m) ==
    \/ /\ c.ops[m].data = SendData(c.metrics_data[1])
       /\ m = 1 \/ c.ops[m - 1].op = "connect"
    \/ /\ m > 1
       /\ c.ops[m - 1].op = "send" /\ c.ops[m - 1].res = Ok
       /\ c.ops[m - 1].sock = c.ops[m].sock
       /\ \E n \in 1..(Len(c.metrics_data) - 1) :
             /\ c.ops[m - 1].data = SendData(c.metrics_data[n])
             /\ c.ops[m].data = SendData(c.metrics_data[n + 1])

\* C18: at-least-once on retry.  In one call of the proxy _report_points,
\* taken when the call is over (its operations are all made), every line
\* of the batch was handed to send() at most twice, and the writes of
\* each attempt follow the order of the batch from its first line.  When
\* exactly one operation fails, and it is the write of line i (from 0, with
\* i > 0), the retry starts again at line 0: the lines 0..i-1 are written
\* twice, the lines from i on once, so every line is written at least once.
C18_AtLeastOnceOnRetry ==
    \A t \in Threads :
        LET c == call[t]
            n == Len(c.metrics_data)
        IN (reporter = "proxy" /\ c.pc = "done") =>
             /\ \A k \in 1..n : Cardinality(SendsOf(c, k)) <= 2
             /\ \A m \in 1..Len(c.ops) :
                   c.ops[m].op = "send" => InBatchOrder(c, m)
             /\ FailedOnce(c) =>
                  \A f \in Failures(c) :
                    \A i \in 2..n :
                      (c.ops[f].op = "send"
                         /\ c.ops[f].data = SendData(c.metrics_data[i])) =>
                        /\ \A k \in 1..(i - 1) :
                              Cardinality(WritesOf(c, k)) = 2
                        /\ \A k \in i..n : Cardinality(WritesOf(c, k)) = 1

\* C18 witness: a batch of three lines whose first attempt wrote two lines
\* and failed at the third, and whose retry wrote the three lines.
C18_Witness ==
    \E t \in Threads :
        LET c == call[t]
        IN /\ FailedOnce(c)
           /\ Len(c.metrics_data) = 3
           /\ Cardinality(WritesOf(c, 1)) = 2
           /\ Cardinality(WritesOf(c, 2)) = 2
           /\ Cardinality(WritesOf(c, 3)) = 1
           /\ Cardinality(SendsOf(c, 3)) = 2

\* C19: non-socket exceptions are not retried.  When an operation of a
\* proxy send attempt raises an exception that is not a socket error, the
\* call is over at once: exactly one error is logged, no operation follows
\* (no retry, no new socket, no connect), and the reporter keeps the handle
\* the operation was made on, in the state the operation left it.  The
\* retry is entered only through a socket error of the first attempt.
C19_OtherExceptionNotRetried ==
    \A t \in Threads :
        LET c == call[t]
        IN reporter = "proxy" =>
             /\ \A f \in Failures(c) :
                  c.ops[f].res = OtherException =>
                    /\ f = Len(c.ops)
                    /\ c.pc = "done"
                    /\ c.logged = 1
                    /\ proxy_socket # NoSocket
                    /\ proxy_socket.id = c.ops[f].sock
                    /\ proxy_socket.state =
                          (IF c.ops[f].op = "connect" THEN "new"
                           ELSE "connected")
                    /\ nsock = Cardinality({m \in 1..Len(c.ops) :
                                 c.ops[m].op = "socket" /\ c.ops[m].res = Ok})
                               + c.entry_nsock
                    /\ (\A g \in Failures(c) : g = f) =>
                          /\ c.reconnect
                          /\ c.ops[f].sock = c.entry_socket.id
                                => proxy_socket = c.entry_socket
             /\ (c.pc # "idle" /\ ~c.reconnect) <=> Retried(c) # {}

\* C19 witness: a cycle entered with a live connection wrote a line and the
\* write of the next line raised an exception that is not a socket error;
\* the call ended there, and the reporter holds the same connection.
C19_Witness ==
    \E t \in Threads :
        LET c == call[t]
        IN /\ reporter = "proxy" /\ c.pc = "done"
           /\ c.entry_socket.state = "connected"
           /\ Len(c.ops) = 2
           /\ c.ops[1].res = Ok
           /\ c.ops[2].op = "send" /\ c.ops[2].res = OtherException
           /\ c.logged = 1
           /\ proxy_socket = c.entry_socket

\* The value the line at position p of a frame reports.
LineValue(c, p) == c.metrics[Pairs(c.metrics)[p][1]][Pairs(c.metrics)[p][2]]

\* C20: timestamp handling differs by reporter.  The direct reporter passes
\* no timestamp to the collection: each of its lines is the line without a
\* timestamp segment, whatever timestamp report_now was given.  The proxy
\* reporter collects with the timestamp supplied when that is not None and
\* not 0, and with the rounded clock reading otherwise; each of its lines
\* carries that timestamp as its segment when it is not 0, and has no
\* segment when it is 0.  (The lines are looked at in the states of the
\* collection, its last state included: the delivery does not change them.)
C20_TimestampByReporter ==
    \A t \in Threads :
        LET c == call[t]
        IN /\ (c.pc # "idle" /\ reporter = "direct") => c.timestamp = None
           /\ (c.pc # "idle" /\ reporter = "proxy") =>
                /\ c.timestamp # None
                /\ Truthy(c.supplied) => c.timestamp = c.supplied
                /\ ~Truthy(c.supplied) =>
                     \E now \in ClockReadings :
                         c.timestamp = Some(RoundTenths(now))
           /\ c.pc = "collect" =>
              \A p \in Visited(c) :
                c.metrics_data[p] =
                  IF reporter = "proxy" /\ c.timestamp[1] # 0
                  THEN StampedLine(LineName(c, p), LineValue(c, p),
                                   c.timestamp[1], source, tagStr)
                  ELSE PlainLine(LineName(c, p), LineValue(c, p),
                                 source, tagStr)

\* C20 witness: a direct reporter was given the timestamp 5 and has
\* collected a line, which has no timestamp segment.
C20_Witness ==
    \E t \in Threads :
        LET c == call[t]
        IN /\ reporter = "direct"
           /\ c.supplied = Some(5)
           /\ c.pos > 1
           /\ c.metrics_data[1] =
                 PlainLine(LineName(c, 1), LineValue(c, 1), source, tagStr)

\* The other half of the case: a proxy reporter given the timestamp 0 took
\* the clock reading 1.6, and its line carries the segment 2.
ProxyClockStampReached ==
    \E t \in Threads :
        LET c == call[t]
        IN /\ reporter = "proxy"
           /\ c.supplied = Some(0)
           /\ c.pos > 1
           /\ c.metrics_data[1] =
                 StampedLine(LineName(c, 1), LineValue(c, 1), 2, source,
                             tagStr)

====
